---------------------------- MODULE Spec2Model ----------------------------
(***************************************************************************)
(* Model of the consistency-distillation training step of                  *)
(* examples/t2v_turbo/train_t2v_turbo_vc2.py (TrainStepForTurbo.forward)   *)
(* and of the objects main() builds for it.                                *)
(*                                                                         *)
(* Tensors are sequences: a latent batch is a sequence of samples, each a  *)
(* sequence of per-frame values.  Real numbers are fixed-point integers    *)
(* with One standing for 1.0.                                              *)
(*                                                                         *)
(* Spec        : forward as main() constructs it (lines 678-682, 686-717). *)
(* SpecForward : the stages of forward with the text-embedding call of     *)
(*               line 717 returning its dictionary.                        *)
(* SpecLoop    : main()'s training loop (lines 532-624) with a train step  *)
(*               that returns; SpecLoopFair adds weak fairness.            *)
(* SpecOpenSora: main() of examples/opensora_pku/opensora/train/           *)
(*               train_t2v.py, from the VAE branch to model.train.          *)
(* SpecSplitCoeff : split_coeff of examples/sadtalker/utils/preprocess.py. *)
(***************************************************************************)
EXTENDS Integers, Sequences, FiniteSets, TLC

\* ------------------------------------------------------------------ bounds
\* fixed-point unit: the integer that stands for 1.0
One == 16
\* length T of the full noise schedule
NumTrainTimesteps == 4
\* largest configured stride args.topk
MaxTopk == 2
\* largest number of frames per video (args.n_frames)
MaxFrames == 3
\* the Encode stage on its own: batch sizes, frame counts, chunk sizes
MaxEncodeBatch == 3
MaxEncodeFrames == 3
MaxChunk == 4
\* the video-reward frame selection on its own: temporal lengths
MaxProbeFrames == 8
\* optimizer updates followed in a run of training steps
MaxUpdates == 1
\* main()'s training loop: batches per epoch, requested steps, step numbers
\* of the checkpoint directories found in the output directory
MaxBatches == 2
MaxTrainSteps == 2
MaxOldStep == 5
\* Open-Sora step accounting
MaxDatasetSize == 3
MaxOsSteps == 4
MaxSinkSize == 3
\* columns of the coefficient tensor handed to split_coeff
MaxCoeffCols == 258

\* ------------------------------------------------------ configuration sets
TrainBatchSizes == {1, 2}
FrameCounts == 2..MaxFrames
VaeEncodeBatchSizes == {2}
DdimTimestepChoices == {2, NumTrainTimesteps}
Topks == 0..MaxTopk
RewardScales == {0, 1}
VideoRewardScales == {-1, 0, 1}
LossTypes == {"l2", "huber", "l1"}
VideoRmBatchSizes == {2}
RewardBatchSizes == {1}
GuidanceRanges == {<<0, 2 * One>>, <<2 * One, One>>}
HuberCs == {1}

\* values the opaque collaborators may return (fixed point)
NoiseVals == {One}
RandVals == {0, One \div 2}
StudentVals == {-One, One \div 2}
TeacherVals == {One}
UncondTeacherVals == {0, One \div 2}
RewardVals == {3 * One}

\* ----------------------------------------------------------------- helpers
ISqrt(n) == CHOOSE r \in 0..n : r * r <= n /\ (r + 1) * (r + 1) > n

RECURSIVE SumSeq(_)
SumSeq(s) == IF s = <<>> THEN 0 ELSE Head(s) + SumSeq(Tail(s))

RECURSIVE Flatten(_)
Flatten(ss) == IF ss = <<>> THEN <<>> ELSE Head(ss) \o Flatten(Tail(ss))

\* mean of a (batch, frame) tensor
Mean(x) == SumSeq(Flatten(x)) \div Len(Flatten(x))


\* ------------------------------------------------- noise schedule, solver
\* alphas_cumprod[t], decreasing in (0, 1)
AlphasCumprod(t) == ((NumTrainTimesteps - t) * One) \div (NumTrainTimesteps + 1)
\* alpha_schedule[t] = sqrt(alphas_cumprod[t])
AlphaSchedule(t) == ISqrt(One * AlphasCumprod(t))
\* sigma_schedule[t] = sqrt(1 - alphas_cumprod[t])
SigmaSchedule(t) == ISqrt(One * (One - AlphasCumprod(t)))

\* DDIMSolver.ddim_timesteps[i] for K sparse timesteps, i in 0..K-1
DdimTimestep(K, i) == (i + 1) * (NumTrainTimesteps \div K) - 1

\* DDIMSolver's alpha_prev at sparse index i: the previous sparse timestep's
\* alphas_cumprod, and 1.0 at the boundary
DdimAlphaPrev(K, i) == IF i = 0 THEN One ELSE AlphasCumprod(DdimTimestep(K, i - 1))

\* DDIMSolver.ddim_step for one element
DdimStepElem(K, i, px0, pnoise) ==
  (ISqrt(One * DdimAlphaPrev(K, i)) * px0
     + ISqrt(One * (One - DdimAlphaPrev(K, i))) * pnoise) \div One

\* scalings_for_boundary_conditions(t, timestep_scaling = s):
\*   c_skip = s^2 / ((t/s)^2 + s^2) = s^4 / (t^2 + s^4)
\*   c_out  = (t/s) / sqrt((t/s)^2 + s^2) = t / sqrt(t^2 + s^4)
TimestepScaling == 1
CSkipOf(t) ==
  (One * TimestepScaling ^ 4) \div (t * t + TimestepScaling ^ 4)
COutOf(t) == (One * t) \div ISqrt(t * t + TimestepScaling ^ 4)
scalings_for_boundary_conditions(t) == <<CSkipOf(t), COutOf(t)>>

\* get_predicted_original_sample(model_output, t, sample, "epsilon", alpha, sigma)
\* for one element: (sample - sigma[t] * model_output) / alpha[t]
PredictedOriginalElem(out, t, sample) ==
  (sample * One - SigmaSchedule(t) * out) \div AlphaSchedule(t)

\* get_predicted_noise(model_output, t, sample, "epsilon", ...): the output itself
PredictedNoiseElem(out, t, sample) == out

\* noise_scheduler.add_noise for one element: alpha[t]*x0 + sigma[t]*noise
AddNoiseElem(x0, n, t) == (AlphaSchedule(t) * x0 + SigmaSchedule(t) * n) \div One

\* guidance_scale_embedding(w): a feature computed from w alone
guidance_scale_embedding(w) == [i \in 1..Len(w) |-> <<"emb", w[i]>>]

\* huber_loss(pred, target, c) = mean(sqrt((pred - target)^2 + c^2) - c)
HuberElem(p, t, c) == ISqrt((p - t) * (p - t) + c * c) - c
\* ops.mse_loss element: (pred - target)^2
MseElem(p, t) == ((p - t) * (p - t)) \div One


\* vae_scale_factor = model_config["params"]["scale_factor"]
vae_scale_factor == 2

\* vae.encode(frames).sample() on a chunk of flattened frames
VaeEncode(chunk) == [k \in 1..Len(chunk) |-> 10 * chunk[k]]

\* vae.decode on selected latents, then (x / 2 + 0.5).clamp(0, 1)
VaeDecodeElem(z) ==
  LET v == z \div 2 + One \div 2
  IN  IF v < 0 THEN 0 ELSE IF v > One THEN One ELSE v

\* ------------------------------------------------------------------- state
VARIABLES
  args,             \* the parsed configuration
  reward_fn,        \* main(): the image reward function or "None"
  video_rm_fn,      \* main(): the video reward function or "None"
  pc,               \* position in forward
  exc,              \* the exception forward exited with, "" when none
  stages,           \* the stages of section 4.5 executed so far, in order
  enc_i,            \* encode loop: offset of the next chunk
  latent_chunks,    \* encode loop: the list `latents` before mint.cat
  latents,          \* (b, t) latent tensor after scaling
  index,            \* per-sample sparse index
  start_timesteps,  \* per-sample start timestep
  timesteps,        \* per-sample advanced timestep
  scalings,         \* [c_skip_start, c_out_start, c_skip, c_out], per sample
  noisy_model_input,
  w,                \* per-sample guidance weight
  w_embedding,
  model_pred,
  teacher,          \* [cond, uncond, pred_x0, pred_noise]: teacher estimates
  x_prev,
  target,
  losses,           \* [distill_loss, reward_loss, video_rm_loss]
  loss_grad,        \* whether distill_loss was evaluated with gradient tracking on
  result,           \* the returned tuple, <<>> before the return
  grad_enabled,     \* the gradient-tracking mode
  grad_stack,       \* modes saved by the open no-gradient scopes
  calls,            \* log of collaborator calls
  expert_rewards,   \* what reward_fn returned, <<>> before the call
  video_rewards,    \* what video_rm_fn returned, <<>> before the call
  params,           \* version of each network's parameters
  probe,            \* argument and result of a function evaluated on its own
  loop_args,        \* the options of args the training loop reads, and rank_id
  lpc,              \* position in main()'s training loop
  lexc,             \* the exception the loop exited with, "" when none
  epoch,            \* the for loop's epoch
  batch_i,          \* batches of the epoch handed to train_step so far
  global_step,
  progress,         \* progress_bar updates
  sync_gradients,   \* train_step.sync_gradients after the last call
  accum,            \* train_step calls so far
  sync_calls,       \* train_step calls after which sync_gradients was true
  dirs,             \* entries of args.output_dir
  dirs0,            \* the entries when the run started
  removed,          \* entries removed by the rotation
  ckpt_files,       \* steps whose model.ckpt was written
  os_args,          \* Open-Sora train_t2v.main(): the options it reads
  os_pc,            \* position in train_t2v.main()
  os_exc,           \* the exception train_t2v.main() exited with, "" when none
  os_defined,       \* the local names of train_t2v.main() bound so far
  os_locals,        \* values of the locals the step accounting computes
  os_warnings       \* logger.warning calls made

osVars == <<os_args, os_pc, os_exc, os_defined, os_locals, os_warnings>>
loopVars == <<loop_args, lpc, lexc, epoch, batch_i, global_step, progress,
              sync_gradients, accum, sync_calls, dirs, dirs0, removed, ckpt_files>>
cfgVars == <<args, reward_fn, video_rm_fn, params, probe, loopVars, osVars>>
encVars == <<enc_i, latent_chunks, latents>>
tsVars == <<index, start_timesteps, timesteps, scalings>>
fwdVars == <<noisy_model_input, w, w_embedding, model_pred>>
tchVars == <<teacher, x_prev, target>>
outVars == <<losses, loss_grad, result, expert_rewards, video_rewards>>
gradVars == <<grad_enabled, grad_stack>>
vars == <<cfgVars, encVars, tsVars, fwdVars, tchVars, outVars, gradVars,
          pc, exc, stages, calls>>

\* main(): reward_fn is constructed only when args.reward_scale > 0
MakeRewardFn(scale) == IF scale > 0 THEN "fn" ELSE "None"
\* main(): video_rm_fn is constructed only when args.video_reward_scale > 0
MakeVideoRmFn(scale) == IF scale > 0 THEN "fn" ELSE "None"

Configs ==
  [train_batch_size : TrainBatchSizes, n_frames : FrameCounts,
   vae_encode_batch_size : VaeEncodeBatchSizes,
   num_ddim_timesteps : DdimTimestepChoices, topk : Topks,
   reward_scale : RewardScales, video_reward_scale : VideoRewardScales,
   loss_type : LossTypes, video_rm_batch_size : VideoRmBatchSizes,
   reward_batch_size : RewardBatchSizes, w_range : GuidanceRanges,
   huber_c : HuberCs]

\* the networks main() loads or creates (lines 165-184)
Networks == {"vae", "text_encoder", "teacher_unet", "unet"}

\* the batch handed to forward: b videos of t frames, frame (i, j) holding
\* the pixel value (i - 1) * t + j; pixel_values.view(b * t, ...)
PixelValuesFlatten == [k \in 1..(args.train_batch_size * args.n_frames) |-> k]

\* forward's locals and the collaborators' state when forward is entered
ForwardEntry ==
  /\ reward_fn = MakeRewardFn(args.reward_scale)
  /\ video_rm_fn = MakeVideoRmFn(args.video_reward_scale)
  /\ pc = "encode"
  /\ exc = ""
  /\ stages = <<>>
  /\ enc_i = 0
  /\ latent_chunks = <<>>
  /\ latents = <<>>
  /\ index = <<>>
  /\ start_timesteps = <<>>
  /\ timesteps = <<>>
  /\ scalings = [c_skip_start |-> <<>>, c_out_start |-> <<>>,
                 c_skip |-> <<>>, c_out |-> <<>>]
  /\ noisy_model_input = <<>>
  /\ w = <<>>
  /\ w_embedding = <<>>
  /\ model_pred = <<>>
  /\ teacher = [cond |-> <<>>, uncond |-> <<>>, pred_x0 |-> <<>>, pred_noise |-> <<>>]
  /\ x_prev = <<>>
  /\ target = <<>>
  /\ losses = [distill_loss |-> 0, reward_loss |-> 0, video_rm_loss |-> 0]
  /\ loss_grad = FALSE
  /\ result = <<>>
  /\ grad_enabled = TRUE
  /\ grad_stack = <<>>
  /\ calls = <<>>
  /\ expert_rewards = <<>>
  /\ video_rewards = <<>>

\* the step-accounting locals of train_t2v.main() before they are assigned
OsLocals0 == [steps_per_sink |-> 0, total_train_steps |-> 0, sink_epochs |-> 0, epochs |-> 0,
              step_mode |-> FALSE, ckpt_save_interval |-> 0]

\* train_t2v.main() not running
OsIdle ==
  /\ os_args = [rank_id |-> 0]
  /\ os_pc = "idle"
  /\ os_exc = ""
  /\ os_defined = {}
  /\ os_locals = OsLocals0
  /\ os_warnings = 0

\* main()'s training loop not entered
TrainLoopIdle ==
  /\ loop_args = [rank_id |-> 0]
  /\ lpc = "idle"
  /\ lexc = ""
  /\ epoch = 0
  /\ batch_i = 0
  /\ global_step = 0
  /\ progress = 0
  /\ sync_gradients = FALSE
  /\ accum = 0
  /\ sync_calls = 0
  /\ dirs = {}
  /\ dirs0 = {}
  /\ removed = {}
  /\ ckpt_files = {}

LoopIdle == OsIdle /\ TrainLoopIdle

\* the state when forward is entered for the first batch
Init ==
  /\ args \in Configs
  /\ ForwardEntry
  /\ LoopIdle
  /\ params = [m \in Networks |-> 0]
  /\ probe = [fn |-> "none"]

\* one entry of the call log
Call(fn, path, x, t, ctx, cond, idx) ==
  [fn |-> fn, path |-> path, x |-> x, t |-> t, ctx |-> ctx, cond |-> cond,
   idx |-> idx, grad |-> grad_enabled]

NumCalls(fn) == Cardinality({k \in DOMAIN calls : calls[k].fn = fn})
NumPathCalls(fn, path) ==
  Cardinality({k \in DOMAIN calls : calls[k].fn = fn /\ calls[k].path = path})

\* a scope exit that leaves gradient tracking off
NoGradExitMode_Off(saved) == FALSE

\* `with ms._no_grad():` leaving the scope restores the mode saved on entry
NoGradExitMode(saved) == saved

\* an exception leaving every open scope: the outermost scope's saved mode
UnwindMode(stack, cur) == IF stack = <<>> THEN cur ELSE NoGradExitMode(stack[1])

\* forward exits with exception e
Raise(e) ==
  /\ pc' = "raised"
  /\ exc' = e
  /\ grad_enabled' = UnwindMode(grad_stack, grad_enabled)
  /\ grad_stack' = <<>>

\* ------------------------------------------------------------ Encode stage
\* a slice that stops one frame short of the end of the batch
ChunkEnd_DropLast(i, c, n) == IF i + c >= n THEN n - 1 ELSE i + c

\* lines 703-704: pixel_values[i : i + args.vae_encode_batch_size], the slice
\* ending at the end of the flattened batch when i + c passes it
ChunkEnd(i, c, n) == IF i + c > n THEN n ELSE i + c

\* lines 701-708: one iteration of the chunked vae.encode loop
EncodeChunk ==
  /\ pc = "encode"
  /\ enc_i < Len(PixelValuesFlatten)
  /\ LET hi == ChunkEnd(enc_i, args.vae_encode_batch_size, Len(PixelValuesFlatten))
         chunk == SubSeq(PixelValuesFlatten, enc_i + 1, hi)
     IN  /\ latent_chunks' = Append(latent_chunks, VaeEncode(chunk))
         /\ calls' = Append(calls, Call("vae.encode", "", <<chunk>>, <<>>, "", <<>>, <<>>))
  /\ enc_i' = enc_i + args.vae_encode_batch_size
  /\ UNCHANGED <<cfgVars, latents, tsVars, fwdVars, tchVars, outVars, gradVars,
                 pc, exc, stages>>

\* lines 709-716: mint.cat, view(b, t, ...), permute, scale by vae_scale_factor
EncodeFinish ==
  /\ pc = "encode"
  /\ enc_i >= Len(PixelValuesFlatten)
  /\ LET flat == Flatten(latent_chunks)
         t == args.n_frames
     IN  latents' = [i \in 1..args.train_batch_size |->
                       [j \in 1..t |-> flat[(i - 1) * t + j] * vae_scale_factor]]
  /\ pc' = "embed"
  /\ stages' = Append(stages, "Encode")
  /\ UNCHANGED <<cfgVars, enc_i, latent_chunks, tsVars, fwdVars, tchVars, outVars,
                 gradVars, exc, calls>>

\* the keyword arguments bound by functools.partial in __init__
PartialKeywords == {"text_encoder", "tokenizer"}
\* the parameters compute_embeddings accepts
ComputeEmbeddingsParams == {"prompt_batch", "text_encoder", "is_train"}

\* line 717: self.compute_embeddings_fn(text); Python binds the partial's
\* keywords to compute_embeddings' parameters and raises TypeError on a
\* keyword the function does not take
ComputeEmbeddingsCall ==
  /\ pc = "embed"
  /\ IF PartialKeywords \subseteq ComputeEmbeddingsParams
     THEN /\ pc' = "sample_timesteps"
          /\ calls' = Append(calls, Call("text_encoder", "", <<>>, <<>>, "", <<>>, <<>>))
          /\ UNCHANGED <<exc, gradVars>>
     ELSE /\ Raise("TypeError")
          /\ UNCHANGED calls
  /\ UNCHANGED <<cfgVars, encVars, tsVars, fwdVars, tchVars, outVars, stages>>

\* forward as constructed by main()
Next == EncodeChunk \/ EncodeFinish \/ ComputeEmbeddingsCall

Spec == Init /\ [][Next]_vars

\* the Encode stage alone, over batch sizes, frame counts and chunk sizes
EncodeConfigs ==
  [train_batch_size : 1..MaxEncodeBatch, n_frames : 1..MaxEncodeFrames,
   vae_encode_batch_size : 1..MaxChunk,
   num_ddim_timesteps : {NumTrainTimesteps}, topk : {1},
   reward_scale : {0}, video_reward_scale : {0},
   loss_type : {"l2"}, video_rm_batch_size : VideoRmBatchSizes,
   reward_batch_size : RewardBatchSizes, w_range : {<<0, 2 * One>>},
   huber_c : HuberCs]

InitEncode ==
  /\ args \in EncodeConfigs
  /\ ForwardEntry
  /\ LoopIdle
  /\ params = [m \in Networks |-> 0]
  /\ probe = [fn |-> "none"]

NextEncode == EncodeChunk \/ EncodeFinish

SpecEncode == InitEncode /\ [][NextEncode]_vars

\* ------------------------------------------------------- forward's stages
B == args.train_batch_size
Samples == 1..B
Frames == 1..args.n_frames

\* lines 717, 120-122: compute_embeddings returning {"prompt_embeds": ...}
ComputeEmbeddingsReturn ==
  /\ pc = "embed"
  /\ pc' = "sample_timesteps"
  /\ calls' = Append(calls, Call("text_encoder", "", <<>>, <<>>, "", <<>>, <<>>))
  /\ UNCHANGED <<cfgVars, encVars, tsVars, fwdVars, tchVars, outVars, gradVars,
                 exc, stages>>

\* the advance without the clamp of line 725
AdvancedTimestep_Unclamped(start, topk) == start - topk

\* the advance taken away from zero
AdvancedTimestep_Added(start, topk) == start + topk

\* lines 724-725: timesteps = start_timesteps - topk, negative entries set to 0
AdvancedTimestep(start, topk) ==
  LET d == start - topk IN IF d < 0 THEN 0 ELSE d

\* lines 238-244: the solver is constructed with
\* ddim_timesteps=args.num_ddim_timesteps sparse timesteps
SolverNumTimesteps == args.num_ddim_timesteps

\* a draw whose upper bound is included
IndexRange_Inclusive(K) == 0..K

\* line 722: ops.randint(0, args.num_ddim_timesteps, (b,)), upper bound excluded
IndexRange(K) == 0..(K - 1)

\* lines 722-725: draw the sparse index, look up start_timesteps, advance
SampleTimesteps ==
  /\ pc = "sample_timesteps"
  /\ \E idx \in [Samples -> IndexRange(args.num_ddim_timesteps)] :
       /\ index' = idx
       /\ start_timesteps' =
            [i \in Samples |-> DdimTimestep(args.num_ddim_timesteps, idx[i])]
       /\ timesteps' =
            [i \in Samples |->
               AdvancedTimestep(DdimTimestep(args.num_ddim_timesteps, idx[i]), args.topk)]
  /\ pc' = "scalings"
  /\ stages' = Append(stages, "SampleTimesteps")
  /\ UNCHANGED <<cfgVars, encVars, scalings, fwdVars, tchVars, outVars, gradVars,
                 exc, calls>>

\* lines 728-737: boundary scalings for start_timesteps and timesteps
BoundaryScalings ==
  /\ pc = "scalings"
  /\ scalings' =
       [c_skip_start |-> [i \in Samples |-> scalings_for_boundary_conditions(start_timesteps[i])[1]],
        c_out_start  |-> [i \in Samples |-> scalings_for_boundary_conditions(start_timesteps[i])[2]],
        c_skip       |-> [i \in Samples |-> scalings_for_boundary_conditions(timesteps[i])[1]],
        c_out        |-> [i \in Samples |-> scalings_for_boundary_conditions(timesteps[i])[2]]]
  /\ pc' = "noise"
  /\ UNCHANGED <<cfgVars, encVars, index, start_timesteps, timesteps, fwdVars,
                 tchVars, outVars, gradVars, exc, stages, calls>>

\* lines 741-744: sample noise, form the noisy latent at start_timesteps
AddNoise ==
  /\ pc = "noise"
  /\ \E n \in NoiseVals :
       noisy_model_input' =
         [i \in Samples |-> [j \in Frames |->
            AddNoiseElem(latents[i][j], n, start_timesteps[i])]]
  /\ pc' = "guidance"
  /\ UNCHANGED <<cfgVars, encVars, tsVars, w, w_embedding, model_pred, tchVars,
                 outVars, gradVars, exc, stages, calls>>

\* line 747: w = (w_max - w_min) * rand + w_min
GuidanceWeight(w_min, w_max, r) == ((w_max - w_min) * r) \div One + w_min

\* lines 747-752: sample the guidance scale once and embed it
SampleGuidance ==
  /\ pc = "guidance"
  /\ \E r \in RandVals :
       LET ws == [i \in Samples |-> GuidanceWeight(args.w_range[1], args.w_range[2], r)]
       IN  /\ w' = ws
           /\ w_embedding' = guidance_scale_embedding(ws)
  /\ pc' = "student_start"
  /\ UNCHANGED <<cfgVars, encVars, tsVars, noisy_model_input, model_pred, tchVars,
                 outVars, gradVars, exc, stages, calls>>

\* the consistency formula with its two operands exchanged
ConsistencyElem_Swapped(c_skip, c_out, x, pred_x_0) ==
  (c_skip * pred_x_0 + c_out * x) \div One

\* line 774 and line 907: c_skip * x + c_out * pred_x_0, for one element
ConsistencyElem(c_skip, c_out, x, pred_x_0) == (c_skip * x + c_out * pred_x_0) \div One

\* line 907 reading the scalings of start_timesteps
TargetScaling_OfStart(i) == <<scalings.c_skip_start[i], scalings.c_out_start[i]>>
\* the target student pass evaluated at start_timesteps
TargetStudentTimesteps_Start == start_timesteps
\* the second teacher call given the conditional embedding again
TeacherUncondContext_Cond == "prompt_embeds"

\* line 774 multiplies by the scalings of start_timesteps
StartScaling(i) == <<scalings.c_skip_start[i], scalings.c_out_start[i]>>
\* line 907 multiplies by the scalings of the advanced timesteps
TargetScaling(i) == <<scalings.c_skip[i], scalings.c_out[i]>>
\* line 895: the target student pass is evaluated at the advanced timesteps
TargetStudentTimesteps == timesteps
\* line 863: the second teacher call receives the unconditional embedding
TeacherUncondContext == "uncond_prompt_embeds"

\* lines 757-778: the online student prediction and the zero-initialised losses
StudentForwardStart ==
  /\ pc = "student_start"
  /\ \E v \in StudentVals :
       /\ calls' = Append(calls, Call("unet", "", noisy_model_input, start_timesteps,
                                      "prompt_embeds", w_embedding, <<>>))
       /\ model_pred' =
            [i \in Samples |-> [j \in Frames |->
               ConsistencyElem(StartScaling(i)[1], StartScaling(i)[2],
                               noisy_model_input[i][j],
                               PredictedOriginalElem(v, start_timesteps[i],
                                                     noisy_model_input[i][j]))]]
  /\ losses' = [distill_loss |-> 0, reward_loss |-> 0, video_rm_loss |-> 0]
  /\ pc' = "image_reward"
  /\ stages' = Append(stages, "StudentForwardStart")
  /\ UNCHANGED <<cfgVars, encVars, tsVars, noisy_model_input, w, w_embedding, tchVars,
                 loss_grad, result, expert_rewards, video_rewards, gradVars, exc>>

\* the image-reward branch taken for a zero scale as well
ImageRewardTaken_Zero(scale) == scale >= 0

\* line 783: the image-reward path is taken when args.reward_scale > 0
ImageRewardTaken(scale) == scale > 0
\* line 804: the video-reward path is taken when args.video_reward_scale > 0
VideoRewardTaken(scale) == scale > 0

\* model_pred[:, :, idx] / vae_scale_factor, permuted and reshaped to
\* (b * len(idx), ...): the selected frames of each sample, 0-based idx
SelectedLatents(idx) ==
  Flatten([i \in Samples |->
             [k \in 1..Len(idx) |-> model_pred[i][idx[k] + 1] \div vae_scale_factor]])

\* the reward loss with the sign of the reward kept
RewardLoss_Unsigned(rewards, scale) == Mean(<<rewards>>) * scale

\* lines 799 and 829: -rewards.mean() * scale
RewardLoss(rewards, scale) == (-Mean(<<rewards>>)) * scale

\* lines 783-799: the image-reward path
ImageReward ==
  /\ pc = "image_reward"
  /\ \/ /\ ~ImageRewardTaken(args.reward_scale)
        /\ pc' = "video_reward"
        /\ UNCHANGED <<exc, gradVars, calls, losses, expert_rewards>>
     \/ /\ ImageRewardTaken(args.reward_scale)
        /\ args.train_batch_size # 1
        /\ Raise("AssertionError")
        /\ UNCHANGED <<calls, losses, expert_rewards>>
     \/ /\ ImageRewardTaken(args.reward_scale)
        /\ args.train_batch_size = 1
        /\ \E idx \in [1..args.reward_batch_size -> 0..(args.n_frames - 1)] :
             IF reward_fn = "None"
             THEN /\ calls' = Append(calls, Call("vae.decode", "image",
                                       SelectedLatents(idx), <<>>, "", <<>>, idx))
                  /\ Raise("TypeError")
                  /\ UNCHANGED <<losses, expert_rewards>>
             ELSE \E r \in RewardVals :
                  /\ calls' = calls \o
                       << Call("vae.decode", "image", SelectedLatents(idx), <<>>, "",
                               <<>>, idx),
                          Call("reward_fn", "image",
                               [k \in 1..Len(SelectedLatents(idx)) |->
                                  VaeDecodeElem(SelectedLatents(idx)[k])],
                               <<>>, "text", <<>>, <<>>) >>
                  /\ expert_rewards' = [k \in 1..(B * args.reward_batch_size) |-> r]
                  /\ losses' = [losses EXCEPT
                                  !.reward_loss =
                                     RewardLoss(expert_rewards', args.reward_scale)]
                  /\ pc' = "video_reward"
                  /\ UNCHANGED <<exc, gradVars>>
  /\ UNCHANGED <<cfgVars, encVars, tsVars, fwdVars, tchVars, loss_grad, result, stages,
                 video_rewards>>

\* mint.arange(lo, hi, step)
RECURSIVE Arange(_, _, _)
Arange(lo, hi, step) == IF lo >= hi THEN <<>> ELSE <<lo>> \o Arange(lo + step, hi, step)

\* the selection without the [: n] slice
VideoFrameIdx_Unsliced(start_id, t, skip_frames, n) == Arange(start_id, t, skip_frames)

\* lines 808-810: mint.arange(start_id, t, skip_frames)[: n], 0-based frames
VideoFrameIdx(start_id, t, skip_frames, n) ==
  LET a == Arange(start_id, t, skip_frames)
  IN  IF Len(a) <= n THEN a ELSE SubSeq(a, 1, n)

\* lines 804-829: the video-reward path
VideoReward ==
  /\ pc = "video_reward"
  /\ \/ /\ ~VideoRewardTaken(args.video_reward_scale)
        /\ pc' = "no_grad"
        /\ UNCHANGED <<exc, gradVars, calls, losses, video_rewards>>
     \/ /\ VideoRewardTaken(args.video_reward_scale)
        /\ \/ args.train_batch_size # 1
           \/ ~(args.n_frames > args.video_rm_batch_size)
        /\ Raise("AssertionError")
        /\ UNCHANGED <<calls, losses, video_rewards>>
     \/ /\ VideoRewardTaken(args.video_reward_scale)
        /\ args.train_batch_size = 1
        /\ args.n_frames > args.video_rm_batch_size
        /\ \E start_id \in 0..((args.n_frames \div args.video_rm_batch_size) - 1) :
             LET idx == VideoFrameIdx(start_id, args.n_frames,
                                      args.n_frames \div args.video_rm_batch_size,
                                      args.video_rm_batch_size)
             IN  IF Len(idx) # args.video_rm_batch_size
                 THEN /\ Raise("AssertionError")
                      /\ UNCHANGED <<calls, losses, video_rewards>>
                 ELSE IF video_rm_fn = "None"
                 THEN /\ calls' = Append(calls, Call("vae.decode", "video",
                                           SelectedLatents(idx), <<>>, "", <<>>, idx))
                      /\ Raise("TypeError")
                      /\ UNCHANGED <<losses, video_rewards>>
                 ELSE \E r \in RewardVals :
                      /\ calls' = calls \o
                           << Call("vae.decode", "video", SelectedLatents(idx), <<>>, "",
                                   <<>>, idx),
                              Call("video_rm_fn", "video",
                                   [k \in 1..Len(SelectedLatents(idx)) |->
                                      VaeDecodeElem(SelectedLatents(idx)[k])],
                                   <<>>, "text", <<>>, <<>>) >>
                      /\ video_rewards' = [k \in Samples |-> r]
                      /\ losses' = [losses EXCEPT
                                      !.video_rm_loss =
                                         RewardLoss(video_rewards',
                                                    args.video_reward_scale)]
                      /\ pc' = "no_grad"
                      /\ UNCHANGED <<exc, gradVars>>
  /\ UNCHANGED <<cfgVars, encVars, tsVars, fwdVars, tchVars, loss_grad, result, stages,
                 expert_rewards>>

\* the video-reward frame selection alone, over temporal lengths T, reward
\* batch sizes n < T and every start the draw of line 809 can return
FrameSelectionConfigs ==
  { a \in [train_batch_size : {1}, n_frames : 2..MaxProbeFrames,
           vae_encode_batch_size : VaeEncodeBatchSizes,
           num_ddim_timesteps : {NumTrainTimesteps}, topk : {1},
           reward_scale : {0}, video_reward_scale : {1},
           loss_type : {"l2"}, video_rm_batch_size : 1..(MaxProbeFrames - 1),
           reward_batch_size : RewardBatchSizes, w_range : {<<0, 2 * One>>},
           huber_c : HuberCs] :
      a.n_frames > a.video_rm_batch_size }

InitFrameSelection ==
  /\ args \in FrameSelectionConfigs
  /\ ForwardEntry
  /\ LoopIdle
  /\ params = [m \in Networks |-> 0]
  /\ \E start_id \in 0..((args.n_frames \div args.video_rm_batch_size) - 1) :
       probe = [fn |-> "video_frame_idx", start_id |-> start_id, idx |-> <<>>,
                done |-> FALSE]

\* lines 808-810 applied to the drawn start
SelectVideoFrames ==
  /\ probe.fn = "video_frame_idx"
  /\ ~probe.done
  /\ probe' = [probe EXCEPT
                 !.idx = VideoFrameIdx(probe.start_id, args.n_frames,
                                       args.n_frames \div args.video_rm_batch_size,
                                       args.video_rm_batch_size),
                 !.done = TRUE]
  /\ UNCHANGED <<args, reward_fn, video_rm_fn, params, loopVars, osVars, encVars, tsVars,
                 fwdVars, tchVars, outVars, gradVars, pc, exc, stages, calls>>

NextFrameSelection == SelectVideoFrames

SpecFrameSelection == InitFrameSelection /\ [][NextFrameSelection]_vars

\* lines 835 and 892: `with ms._no_grad():` saves the mode and turns tracking off
NoGradEnter ==
  /\ grad_stack' = Append(grad_stack, grad_enabled)
  /\ grad_enabled' = FALSE

\* the end of a `with ms._no_grad():` block
NoGradExit ==
  /\ grad_enabled' = NoGradExitMode(grad_stack[Len(grad_stack)])
  /\ grad_stack' = SubSeq(grad_stack, 1, Len(grad_stack) - 1)

\* line 835: the scope around the teacher rollout opens
EnterTeacherScope ==
  /\ pc = "no_grad"
  /\ NoGradEnter
  /\ pc' = "teacher_cond"
  /\ UNCHANGED <<cfgVars, encVars, tsVars, fwdVars, tchVars, outVars, exc, stages, calls>>

\* lines 837-857: the teacher on the conditional embedding
TeacherCond ==
  /\ pc = "teacher_cond"
  /\ calls' = Append(calls, Call("teacher_unet", "", noisy_model_input, start_timesteps,
                                 "prompt_embeds", <<>>, <<>>))
  /\ stages' = Append(stages, "TeacherDualForward")
  /\ \/ /\ \E v \in TeacherVals : teacher' = [teacher EXCEPT !.cond = v]
        /\ pc' = "teacher_uncond"
        /\ UNCHANGED <<exc, gradVars>>
     \/ /\ Raise("RuntimeError")
        /\ UNCHANGED teacher
  /\ UNCHANGED <<cfgVars, encVars, tsVars, fwdVars, x_prev, target, outVars>>

\* the combination started from the unconditional estimate
CfgElem_FromUncond(cond, uncond, wi) == uncond + (wi * (cond - uncond)) \div One

\* lines 884-885: pred = cond + w * (cond - uncond)
CfgElem(cond, uncond, wi) == cond + (wi * (cond - uncond)) \div One

\* lines 860-885: the teacher on the unconditional embedding, then the
\* classifier-free-guidance estimates of x_0 and of the noise
TeacherUncond ==
  /\ pc = "teacher_uncond"
  /\ calls' = Append(calls, Call("teacher_unet", "", noisy_model_input, start_timesteps,
                                 TeacherUncondContext, <<>>, <<>>))
  /\ \E u \in UncondTeacherVals :
       teacher' =
         [teacher EXCEPT
            !.uncond = u,
            !.pred_x0 =
               [i \in Samples |-> [j \in Frames |->
                  CfgElem(PredictedOriginalElem(teacher.cond, start_timesteps[i],
                                                noisy_model_input[i][j]),
                          PredictedOriginalElem(u, start_timesteps[i],
                                                noisy_model_input[i][j]),
                          w[i])]],
            !.pred_noise =
               [i \in Samples |-> [j \in Frames |->
                  CfgElem(PredictedNoiseElem(teacher.cond, start_timesteps[i],
                                             noisy_model_input[i][j]),
                          PredictedNoiseElem(u, start_timesteps[i],
                                             noisy_model_input[i][j]),
                          w[i])]]]
  /\ pc' = "ode"
  /\ UNCHANGED <<cfgVars, encVars, tsVars, fwdVars, x_prev, target, outVars, gradVars,
                 exc, stages>>

\* forward without the solver call: x_prev taken to be pred_x0
ODEStep_Omitted ==
  /\ pc = "ode"
  /\ x_prev' = teacher.pred_x0
  /\ pc' = "no_grad_target"
  /\ UNCHANGED <<cfgVars, encVars, tsVars, fwdVars, teacher, target, outVars,
                 gradVars, exc, stages, calls>>

\* line 889: x_prev = self.solver.ddim_step(pred_x0, pred_noise, index)
ODEStep ==
  /\ pc = "ode"
  /\ calls' = Append(calls, Call("solver.ddim_step", "", teacher.pred_x0, <<>>, "",
                                 <<>>, index))
  /\ stages' = Append(stages, "ODEStep")
  /\ \/ /\ x_prev' =
             [i \in Samples |-> [j \in Frames |->
                DdimStepElem(SolverNumTimesteps, index[i],
                             teacher.pred_x0[i][j], teacher.pred_noise[i][j])]]
        /\ pc' = "no_grad_target"
        /\ UNCHANGED <<exc, gradVars>>
     \/ /\ Raise("RuntimeError")
        /\ UNCHANGED x_prev
  /\ UNCHANGED <<cfgVars, encVars, tsVars, fwdVars, teacher, target, outVars>>

\* line 892: the nested scope around the target student pass opens
EnterTargetScope ==
  /\ pc = "no_grad_target"
  /\ NoGradEnter
  /\ pc' = "student_target"
  /\ UNCHANGED <<cfgVars, encVars, tsVars, fwdVars, tchVars, outVars, exc, stages, calls>>

\* lines 893-907: the target student pass; the nested scope closes after it
StudentForwardTarget ==
  /\ pc = "student_target"
  /\ calls' = Append(calls, Call("unet", "", x_prev, TargetStudentTimesteps, "prompt_embeds",
                                 w_embedding, <<>>))
  /\ stages' = Append(stages, "StudentForwardTarget")
  /\ \/ /\ \E v \in StudentVals :
             target' =
               [i \in Samples |-> [j \in Frames |->
                  ConsistencyElem(TargetScaling(i)[1], TargetScaling(i)[2], x_prev[i][j],
                                  PredictedOriginalElem(v, TargetStudentTimesteps[i], x_prev[i][j]))]]
        /\ NoGradExit
        /\ pc' = "loss"
        /\ UNCHANGED exc
     \/ /\ Raise("RuntimeError")
        /\ UNCHANGED target
  /\ UNCHANGED <<cfgVars, encVars, tsVars, fwdVars, teacher, x_prev, outVars>>

\* lines 910-915: the configured metric of (model_pred, target)
DistillLoss(loss_type, prev) ==
  IF loss_type = "l2"
  THEN Mean([i \in Samples |-> [j \in Frames |->
               MseElem(model_pred[i][j], target[i][j])]])
  ELSE IF loss_type = "huber"
       THEN Mean([i \in Samples |-> [j \in Frames |->
                    HuberElem(model_pred[i][j], target[i][j], args.huber_c)]])
       ELSE prev

\* lines 909-915: the loss, computed inside the scope opened at line 835,
\* which closes after it
ComposeLoss ==
  /\ pc = "loss"
  /\ stages' = Append(stages, "ComposeLoss")
  /\ \/ /\ losses' = [losses EXCEPT
                        !.distill_loss = DistillLoss(args.loss_type, losses.distill_loss)]
        /\ loss_grad' = grad_enabled
        /\ NoGradExit
        /\ pc' = "return"
        /\ UNCHANGED exc
     \/ /\ args.loss_type \in {"l2", "huber"}
        /\ Raise("RuntimeError")
        /\ UNCHANGED <<losses, loss_grad>>
  /\ UNCHANGED <<cfgVars, encVars, tsVars, fwdVars, tchVars, result, calls,
                 expert_rewards, video_rewards>>

\* the total without the image-reward term
TotalLoss_NoReward(d, r, v) == d + v

\* line 918: loss = distill_loss + reward_loss + video_rm_loss
TotalLoss(d, r, v) == d + r + v

\* lines 918-919: the four-element tuple is returned
Return ==
  /\ pc = "return"
  /\ result' = <<TotalLoss(losses.distill_loss, losses.reward_loss, losses.video_rm_loss),
                 losses.distill_loss, losses.reward_loss, losses.video_rm_loss>>
  /\ pc' = "returned"
  /\ UNCHANGED <<cfgVars, encVars, tsVars, fwdVars, tchVars, losses, loss_grad,
                 gradVars, exc, stages, calls, expert_rewards, video_rewards>>

\* forward's stages, the text embedding of line 717 available
NextForward ==
  \/ EncodeChunk \/ EncodeFinish \/ ComputeEmbeddingsReturn
  \/ SampleTimesteps \/ BoundaryScalings \/ AddNoise \/ SampleGuidance
  \/ StudentForwardStart \/ ImageReward \/ VideoReward
  \/ EnterTeacherScope \/ TeacherCond \/ TeacherUncond \/ ODEStep
  \/ EnterTargetScope \/ StudentForwardTarget \/ ComposeLoss \/ Return

SpecForward == Init /\ [][NextForward]_vars

\* ------------------------------------------------------ the training loop
\* the optimizer updating the frozen teacher as well
Trainable_TeacherToo == {"unet", "teacher_unet"}

\* lines 170-204, 649-651: vae, text_encoder and teacher_unet are frozen; the
\* optimizer is handed the student unet, whose LoRA parameters are trainable
Trainable == {"unet"}

\* TrainStep: after forward returns the loss, the optimizer updates the
\* trainable parameters
OptimizerStep ==
  /\ pc = "returned"
  /\ params["unet"] < MaxUpdates
  /\ params' = [m \in Networks |-> IF m \in Trainable THEN params[m] + 1 ELSE params[m]]
  /\ pc' = "updated"
  /\ UNCHANGED <<args, reward_fn, video_rm_fn, probe, loopVars, osVars, encVars, tsVars,
                 fwdVars, tchVars, outVars, gradVars, exc, stages, calls>>

\* lines 534-536: the loop calls train_step on the next batch
NextBatch ==
  /\ pc = "updated"
  /\ pc' = "encode"
  /\ exc' = ""
  /\ stages' = <<>>
  /\ enc_i' = 0
  /\ latent_chunks' = <<>>
  /\ latents' = <<>>
  /\ index' = <<>>
  /\ start_timesteps' = <<>>
  /\ timesteps' = <<>>
  /\ scalings' = [c_skip_start |-> <<>>, c_out_start |-> <<>>,
                  c_skip |-> <<>>, c_out |-> <<>>]
  /\ noisy_model_input' = <<>>
  /\ w' = <<>>
  /\ w_embedding' = <<>>
  /\ model_pred' = <<>>
  /\ teacher' = [cond |-> <<>>, uncond |-> <<>>, pred_x0 |-> <<>>, pred_noise |-> <<>>]
  /\ x_prev' = <<>>
  /\ target' = <<>>
  /\ losses' = [distill_loss |-> 0, reward_loss |-> 0, video_rm_loss |-> 0]
  /\ loss_grad' = FALSE
  /\ result' = <<>>
  /\ calls' = <<>>
  /\ expert_rewards' = <<>>
  /\ video_rewards' = <<>>
  /\ UNCHANGED <<cfgVars, gradVars>>

NextTrain == NextForward \/ OptimizerStep \/ NextBatch

\* the configurations followed over several steps: the parameters' fate does
\* not depend on topk or on the guidance range
TrainConfigs == {a \in Configs : a.topk = 0 /\ a.w_range[1] <= a.w_range[2]}

InitTrain ==
  /\ args \in TrainConfigs
  /\ ForwardEntry
  /\ LoopIdle
  /\ params = [m \in Networks |-> 0]
  /\ probe = [fn |-> "none"]

SpecTrain == InitTrain /\ [][NextTrain]_vars

\* ------------------------------------------------- main()'s training loop
\* everything of forward, untouched by the loop's own steps
forwardVars == <<args, reward_fn, video_rm_fn, params, probe, osVars, encVars, tsVars,
                 fwdVars, tchVars, outVars, gradVars, pc, exc, stages, calls>>

CeilDiv(a, b) == (a + b - 1) \div b

\* lines 425-427, 452-454: math.ceil(num_batches / gradient_accumulation_steps)
NumUpdateStepsPerEpoch(num_batches, G) == CeilDiv(num_batches, G)

\* an optional option: <<>> stands for None, <<v>> for the value v
None == <<>>
Some(v) == <<v>>

\* lines 428-430, 455-456: max_train_steps when the option is not given
MaxTrainStepsOf(given, epochs, nupe) == IF given = None THEN epochs * nupe ELSE given[1]

\* line 458: math.ceil(args.max_train_steps / num_update_steps_per_epoch)
NumTrainEpochs(max_steps, nupe) == CeilDiv(max_steps, nupe)

\* an entry of args.output_dir: "checkpoint-<step>", "checkpoint-<step>-rm"
\* (rm) or a name that does not start with "checkpoint"
DirEntry(prefix, step, rm) == [prefix |-> prefix, step |-> step, rm |-> rm]

OldEntries ==
  {DirEntry("checkpoint", 1, FALSE), DirEntry("checkpoint", MaxOldStep - 1, FALSE),
   DirEntry("checkpoint", MaxOldStep, FALSE), DirEntry("checkpoint", 3, TRUE),
   DirEntry("logs", 0, FALSE)}

LoopConfigs ==
  { [num_batches |-> nb, gradient_accumulation_steps |-> G,
     max_train_steps |-> MaxTrainStepsOf(given, 2, NumUpdateStepsPerEpoch(nb, G)),
     num_train_epochs |->
       NumTrainEpochs(MaxTrainStepsOf(given, 2, NumUpdateStepsPerEpoch(nb, G)),
                      NumUpdateStepsPerEpoch(nb, G)),
     checkpointing_steps |-> cs, checkpoints_total_limit |-> L,
     report_to |-> "tensorboard", rank_id |-> r] :
    nb \in 1..MaxBatches, G \in {1, 2},
    given \in {None} \cup {Some(n) : n \in 1..MaxTrainSteps},
    cs \in {1, 2}, L \in {None, Some(1), Some(2)}, r \in {0, 1} }

\* the state at line 532, the first batch about to be handed to a train step
\* that returns
InitLoop ==
  /\ args \in {a \in Configs : a.train_batch_size = 1 /\ a.n_frames = 2 /\ a.topk = 0
                               /\ a.num_ddim_timesteps = 2 /\ a.reward_scale = 0
                               /\ a.video_reward_scale = 0 /\ a.loss_type = "l2"
                               /\ a.w_range[1] = 0}
  /\ ForwardEntry
  /\ params = [m \in Networks |-> 0]
  /\ probe = [fn |-> "none"]
  /\ OsIdle
  /\ loop_args \in LoopConfigs
  /\ lpc = "epoch_start"
  /\ lexc = ""
  /\ epoch = 0
  /\ batch_i = 0
  /\ global_step = 0
  /\ progress = 0
  /\ sync_gradients = FALSE
  /\ accum = 0
  /\ sync_calls = 0
  /\ dirs \in SUBSET OldEntries
  /\ dirs0 = dirs
  /\ removed = {}
  /\ ckpt_files = {}

\* lines 532-533: for epoch in range(first_epoch, args.num_train_epochs)
EpochStart ==
  /\ lpc = "epoch_start"
  /\ IF epoch < loop_args.num_train_epochs
     THEN lpc' = "batch" /\ batch_i' = 0
     ELSE lpc' = "done" /\ UNCHANGED batch_i
  /\ UNCHANGED <<forwardVars, loop_args, lexc, epoch, global_step, progress,
                 sync_gradients, accum, sync_calls, dirs, dirs0, removed, ckpt_files>>

\* TrainStep: sync_gradients is true after a call that ends an accumulation
\* round of gradient_accumulation_steps calls
SyncGradientsAfter(n, G) == n % G = 0

\* lines 534-536: the inner loop's body, train_step(*batch) returning
TrainStepCall ==
  /\ lpc = "batch"
  /\ batch_i < loop_args.num_batches
  /\ batch_i' = batch_i + 1
  /\ accum' = accum + 1
  /\ sync_gradients' = SyncGradientsAfter(accum + 1, loop_args.gradient_accumulation_steps)
  /\ sync_calls' = IF sync_gradients' THEN sync_calls + 1 ELSE sync_calls
  /\ UNCHANGED <<forwardVars, loop_args, lpc, lexc, epoch, global_step, progress,
                 dirs, dirs0, removed, ckpt_files>>

\* the step count raised twice
GlobalStepAfterSync_Twice(gs) == gs + 2

\* line 545: global_step += 1
GlobalStepAfterSync(gs) == gs + 1

\* line 548: global_step % args.checkpointing_steps == 0
CheckpointDue(gs, cs) == gs % cs = 0

\* lines 543-548, after the inner loop has ended: the step is counted when
\* train_step.sync_gradients is true, and rank 0 checks whether a checkpoint
\* is due
CountStep ==
  /\ lpc = "batch"
  /\ batch_i >= loop_args.num_batches
  /\ IF sync_gradients
     THEN /\ progress' = progress + 1
          /\ global_step' = GlobalStepAfterSync(global_step)
          /\ lpc' = IF /\ loop_args.rank_id = 0
                       /\ CheckpointDue(global_step', loop_args.checkpointing_steps)
                    THEN "ckpt_rotate" ELSE "logs"
     ELSE /\ lpc' = "epoch_end"
          /\ UNCHANGED <<progress, global_step>>
  /\ UNCHANGED <<forwardVars, loop_args, lexc, epoch, batch_i, sync_gradients, accum,
                 sync_calls, dirs, dirs0, removed, ckpt_files>>

\* lines 552-556: entries starting with "checkpoint" whose name has no "rm"
Counted(ds) == {d \in ds : d.prefix = "checkpoint" /\ ~d.rm}

\* lines 557-559: sorted by the step number in the name; the k oldest
Oldest(ds, k) == {d \in ds : Cardinality({e \in ds : e.step < d.step}) < k}

\* a rotation that makes no room for the new checkpoint
NumToRemove_NoRoom(n, L) == n - L

\* lines 563-565: len(checkpoints) - args.checkpoints_total_limit + 1
NumToRemove(n, L) == n - L + 1

\* lines 550-580: the rotation before a save
RotateCheckpoints ==
  /\ lpc = "ckpt_rotate"
  /\ LET L == loop_args.checkpoints_total_limit
         checkpoints == Counted(dirs)
         removing == IF L # None /\ Cardinality(checkpoints) >= L[1]
                     THEN Oldest(checkpoints,
                                 NumToRemove(Cardinality(checkpoints), L[1]))
                     ELSE {}
     IN  /\ dirs' = dirs \ removing
         /\ removed' = removed \cup removing
  /\ lpc' = "ckpt_save"
  /\ UNCHANGED <<forwardVars, loop_args, lexc, epoch, batch_i, global_step, progress,
                 sync_gradients, accum, sync_calls, dirs0, ckpt_files>>

\* lines 277-285: def save_model_hook(models, weights, output_dir)
SaveModelHookParams == <<"models", "weights", "output_dir">>
\* line 585: save_model_hook(models, save_path)
SaveModelHookArgs == <<"models", "save_path">>

\* lines 582-589: makedirs, the LoRA save hook, ms.save_checkpoint; Python
\* raises TypeError when the call leaves a required parameter unbound
SaveCheckpoint ==
  /\ lpc = "ckpt_save"
  /\ dirs' = dirs \cup {DirEntry("checkpoint", global_step, FALSE)}
  /\ IF Len(SaveModelHookArgs) = Len(SaveModelHookParams)
     THEN /\ ckpt_files' = ckpt_files \cup {global_step}
          /\ lpc' = "logs"
          /\ UNCHANGED lexc
     ELSE /\ lpc' = "raised"
          /\ lexc' = "TypeError"
          /\ UNCHANGED ckpt_files
  /\ UNCHANGED <<forwardVars, loop_args, epoch, batch_i, global_step, progress,
                 sync_gradients, accum, sync_calls, dirs0, removed>>

\* lines 611-621: rank 0 logs the losses; logger.info(logs, step=global_step)
\* on a logging.Logger raises TypeError when INFO is enabled for it and
\* returns when it is not
LogLosses ==
  /\ lpc = "logs"
  /\ \/ /\ lpc' = "epoch_end"
        /\ UNCHANGED lexc
     \/ /\ loop_args.rank_id = 0
        /\ lpc' = "raised"
        /\ lexc' = "TypeError"
  /\ UNCHANGED <<forwardVars, loop_args, epoch, batch_i, global_step, progress,
                 sync_gradients, accum, sync_calls, dirs, dirs0, removed, ckpt_files>>

\* lines 623-624: if global_step >= args.max_train_steps: break
EpochEnd ==
  /\ lpc = "epoch_end"
  /\ IF global_step >= loop_args.max_train_steps
     THEN lpc' = "done" /\ UNCHANGED epoch
     ELSE lpc' = "epoch_start" /\ epoch' = epoch + 1
  /\ UNCHANGED <<forwardVars, loop_args, lexc, batch_i, global_step, progress,
                 sync_gradients, accum, sync_calls, dirs, dirs0, removed, ckpt_files>>

NextLoop ==
  \/ EpochStart \/ TrainStepCall \/ CountStep \/ RotateCheckpoints
  \/ SaveCheckpoint \/ LogLosses \/ EpochEnd

\* the training loop with a train step that returns
SpecLoop == InitLoop /\ [][NextLoop]_vars

\* the loop is one thread that keeps running until it ends or raises
SpecLoopFair == InitLoop /\ [][NextLoop]_vars /\ WF_vars(NextLoop)

\* --------------------- opensora_pku/opensora/train/train_t2v.py : main()
\* Every variable the Open-Sora actions leave alone.
nonOsVars == <<args, reward_fn, video_rm_fn, params, probe, loopVars, encVars, tsVars,
               fwdVars, tchVars, outVars, gradVars, pc, exc, stages, calls>>

\* the stride of the autoencoder, ae_stride_config[args.ae]
AeStrideH == 8

\* the names main() binds on the branch that builds the VAE (lines 88-126)
\* and reads again after it
VaeBranchNames == {"vae", "vae_dtype", "latent_size"}

\* the names main() binds on the latent-cache branch (line 86)
LatentCacheNames == {"vae"}

\* the attributes of logging.Logger that main() may call
LoggerMethods == {"debug", "info", "warning", "error", "critical"}

OsOptions ==
  [rank_id : {0, 1},
   vae_latent_folder : {None, Some("missing"), Some("cached")},
   max_image_size : {AeStrideH, AeStrideH + 4},
   dataset_size : 1..MaxDatasetSize,
   max_train_steps : {None} \cup {Some(n) : n \in 1..MaxOsSteps},
   epochs : 1..2,
   dataset_sink_mode : BOOLEAN,
   sink_size : {-1, 0} \cup (2..MaxSinkSize),
   checkpointing_steps : {None, Some(1), Some(MaxSinkSize + 1)},
   ckpt_save_interval : {5},
   step_mode : BOOLEAN]

\* one representative of the options that main() cannot tell apart: epochs is
\* overwritten when max_train_steps is given (line 282), sink_size is read only
\* in sink mode (line 274), max_image_size only on the VAE branch (line 119)
OsConfigs ==
  {a \in OsOptions :
     /\ (a.max_train_steps # None => a.epochs = 1)
     /\ (~a.dataset_sink_mode => a.sink_size = -1)
     /\ (a.vae_latent_folder # None => a.max_image_size = AeStrideH)}

InitOpenSora ==
  /\ args \in {a \in Configs : a.train_batch_size = 1 /\ a.n_frames = 2 /\ a.topk = 0
                               /\ a.num_ddim_timesteps = 2 /\ a.reward_scale = 0
                               /\ a.video_reward_scale = 0 /\ a.loss_type = "l2"
                               /\ a.w_range[1] = 0}
  /\ ForwardEntry
  /\ TrainLoopIdle
  /\ params = [m \in Networks |-> 0]
  /\ probe = [fn |-> "none"]
  /\ os_args \in OsConfigs
  /\ os_pc = "init_vae"
  /\ os_exc = ""
  /\ os_defined = {}
  /\ os_locals = OsLocals0
  /\ os_warnings = 0

OsRaise(e) ==
  /\ os_pc' = "raised"
  /\ os_exc' = e

\* line 80
TrainWithVaeLatent(folder) == folder # None /\ Len(folder[1]) > 0

\* lines 80-126: the VAE, or the latent cache in its place
OsInitVae ==
  /\ os_pc = "init_vae"
  /\ IF TrainWithVaeLatent(os_args.vae_latent_folder)
     THEN IF os_args.vae_latent_folder[1] = "cached"
          THEN /\ os_defined' = os_defined \cup LatentCacheNames
               /\ os_pc' = "build_model"
               /\ os_exc' = os_exc
          ELSE /\ OsRaise("AssertionError")
               /\ os_defined' = os_defined
     ELSE IF os_args.max_image_size % AeStrideH = 0
          THEN /\ os_defined' = os_defined \cup VaeBranchNames
               /\ os_pc' = "build_model"
               /\ os_exc' = os_exc
          ELSE /\ OsRaise("AssertionError")
               /\ os_defined' = os_defined \cup {"vae", "vae_dtype"}
  /\ UNCHANGED <<os_args, os_locals, os_warnings, nonOsVars>>

\* the local names the call of lines 139-162 reads
BuildModelReads == {"latent_size"}

\* the local names the key_info f-string of lines 472-508 reads
LogConfigReads == {"vae", "latte_model", "model_dtype", "vae_dtype", "text_encoder_dtype",
                   "learning_rate", "total_train_steps", "FA_dtype"}

\* lines 128-272: the Latte model, text encoder, diffusion, dataset, learning rate
OsBuildModel ==
  /\ os_pc = "build_model"
  /\ IF BuildModelReads \subseteq os_defined \cup {"FA_dtype"}
     THEN /\ os_defined' = os_defined \cup {"FA_dtype", "latte_model", "model_dtype",
                                            "text_encoder_dtype", "dataset_size",
                                            "learning_rate"}
          /\ os_pc' = "step_accounting"
          /\ os_exc' = os_exc
     ELSE /\ OsRaise("UnboundLocalError")
          /\ os_defined' = os_defined \cup {"FA_dtype"}
  /\ UNCHANGED <<os_args, os_locals, os_warnings, nonOsVars>>

\* lines 274-278
StepsPerSink(a) ==
  IF a.dataset_sink_mode /\ a.sink_size # -1 THEN a.sink_size ELSE a.dataset_size

\* lines 280-289: the step count the user asks for
RequestedSteps(a) ==
  IF a.max_train_steps # None THEN a.max_train_steps[1] ELSE a.epochs * a.dataset_size

\* line 291 with the division rounded down
SinkEpochs_Floor(total, sps) == total \div sps

\* line 291: math.ceil(total_train_steps / steps_per_sink)
SinkEpochs(total, sps) == CeilDiv(total, sps)

\* lines 274-301: steps per sink, sink epochs, total steps
OsStepAccounting ==
  /\ os_pc = "step_accounting"
  /\ IF os_args.dataset_sink_mode /\ os_args.sink_size # -1 /\ ~(os_args.sink_size > 0)
     THEN /\ OsRaise("AssertionError")
          /\ UNCHANGED <<os_locals, os_defined>>
     ELSE LET sps == StepsPerSink(os_args)
              req == RequestedSteps(os_args)
              se  == SinkEpochs(req, sps)
          IN /\ os_locals' = [os_locals EXCEPT
                                !.steps_per_sink = sps,
                                !.epochs = IF os_args.max_train_steps # None
                                           THEN CeilDiv(req, os_args.dataset_size)
                                           ELSE os_args.epochs,
                                !.sink_epochs = se,
                                !.total_train_steps = se * sps]
             /\ os_defined' = os_defined \cup {"steps_per_sink", "total_train_steps",
                                               "sink_epochs"}
             /\ os_pc' = "ckpt_mode"
             /\ os_exc' = os_exc
  /\ UNCHANGED <<os_args, os_warnings, nonOsVars>>

\* lines 303-305, 307: the step mode main() derives
DerivedStepMode(a) ==
  IF a.checkpointing_steps = None THEN FALSE ELSE ~a.dataset_sink_mode

PyMax(a, b) == IF a >= b THEN a ELSE b

\* lines 304, 309, 312: the checkpoint interval main() derives
DerivedInterval(a, sps) ==
  IF a.checkpointing_steps = None THEN a.ckpt_save_interval
  ELSE IF ~a.dataset_sink_mode THEN a.checkpointing_steps[1]
  ELSE PyMax(1, a.checkpointing_steps[1] \div sps)

\* lines 313-317: the warning about an interval that is not whole sinks
SinkIntervalWarning(a, sps) ==
  /\ a.checkpointing_steps # None
  /\ a.dataset_sink_mode
  /\ a.checkpointing_steps[1] % sps # 0

\* line 319: the method main() calls on the logger
ModeChangeLogCall == "logging"

\* lines 303-330: checkpoint interval and mode
OsCheckpointMode ==
  /\ os_pc = "ckpt_mode"
  /\ LET sps == os_locals.steps_per_sink
         sm  == DerivedStepMode(os_args)
         w1  == IF SinkIntervalWarning(os_args, sps) THEN 1 ELSE 0
     IN /\ os_locals' = [os_locals EXCEPT !.step_mode = sm,
                                          !.ckpt_save_interval = DerivedInterval(os_args, sps)]
        /\ os_defined' = os_defined \cup {"ckpt_save_interval", "step_mode"}
        /\ IF sm # os_args.step_mode
           THEN IF ModeChangeLogCall \in LoggerMethods
                THEN /\ os_warnings' = os_warnings + w1 + 1
                     /\ os_pc' = "log_config"
                     /\ os_exc' = os_exc
                ELSE /\ os_warnings' = os_warnings + w1
                     /\ OsRaise("AttributeError")
           ELSE /\ os_warnings' = os_warnings + w1
                /\ os_pc' = "log_config"
                /\ os_exc' = os_exc
  /\ UNCHANGED <<os_args, nonOsVars>>

\* lines 332-518: scheduler, optimizer, callbacks, the configuration logged on
\* rank 0, and the call of model.train
OsLogConfigAndTrain ==
  /\ os_pc = "log_config"
  /\ IF os_args.rank_id = 0 /\ ~(LogConfigReads \subseteq os_defined)
     THEN OsRaise("UnboundLocalError")
     ELSE /\ os_pc' = "train"
          /\ os_exc' = os_exc
  /\ UNCHANGED <<os_args, os_defined, os_locals, os_warnings, nonOsVars>>

NextOpenSora ==
  \/ OsInitVae
  \/ OsBuildModel
  \/ OsStepAccounting
  \/ OsCheckpointMode
  \/ OsLogConfigAndTrain

SpecOpenSora == InitOpenSora /\ [][NextOpenSora]_vars

\* ------------------------------ sadtalker/utils/preprocess.py : split_coeff
PyMin(a, b) == IF a <= b THEN a ELSE b

\* x[lo:hi] of a Python sequence, both bounds clipped to its length
PySlice(x, lo, hi) == SubSeq(x, PyMin(lo, Len(x)) + 1, PyMin(hi, Len(x)))

\* coeffs[:, lo:hi]
Columns(coeffs, lo, hi) == [b \in 1..Len(coeffs) |-> PySlice(coeffs[b], lo, hi)]

\* coeffs[:, lo:]
ColumnsFrom(coeffs, lo) == [b \in 1..Len(coeffs) |-> PySlice(coeffs[b], lo, Len(coeffs[b]))]

\* lines 21-42 with the gamma field one column short
split_coeff_GammaShort(coeffs) ==
  [id    |-> Columns(coeffs, 0, 80),
   exp   |-> Columns(coeffs, 80, 144),
   tex   |-> Columns(coeffs, 144, 224),
   angle |-> Columns(coeffs, 224, 227),
   gamma |-> Columns(coeffs, 227, 253),
   trans |-> ColumnsFrom(coeffs, 254)]

\* lines 21-42
split_coeff(coeffs) ==
  [id    |-> Columns(coeffs, 0, 80),
   exp   |-> Columns(coeffs, 80, 144),
   tex   |-> Columns(coeffs, 144, 224),
   angle |-> Columns(coeffs, 224, 227),
   gamma |-> Columns(coeffs, 227, 254),
   trans |-> ColumnsFrom(coeffs, 254)]

\* lines 169-174: np.concatenate([exp, angle, trans, trans_params[2:][None]], 1)
PredCoeff(cs, trans_params) ==
  [b \in 1..Len(cs.exp) |->
     cs.exp[b] \o cs.angle[b] \o cs.trans[b] \o PySlice(trans_params, 2, Len(trans_params))]

\* the widths of net_recon's output the check draws
CoeffCols == 254..MaxCoeffCols

CoeffSeeds == 0..9

\* a coefficient tensor whose columns all differ within a row
CoeffTensor(rows, cols, seed) ==
  [b \in 1..rows |-> [j \in 1..cols |-> seed + 1000 * b + j]]

\* the five alignment parameters of line 159
TransParams == <<1, 2, 3, 4, 5>>

NoCoeffs == [id |-> <<>>, exp |-> <<>>, tex |-> <<>>, angle |-> <<>>, gamma |-> <<>>,
             trans |-> <<>>]

InitSplitCoeff ==
  /\ args \in {a \in Configs : a.train_batch_size = 1 /\ a.n_frames = 2 /\ a.topk = 0
                               /\ a.num_ddim_timesteps = 2 /\ a.reward_scale = 0
                               /\ a.video_reward_scale = 0 /\ a.loss_type = "l2"
                               /\ a.w_range[1] = 0}
  /\ ForwardEntry
  /\ LoopIdle
  /\ params = [m \in Networks |-> 0]
  /\ \E rows \in 1..2, cols \in CoeffCols, seed \in CoeffSeeds :
       probe = [fn |-> "split_coeff", full_coeff |-> CoeffTensor(rows, cols, seed),
                coeffs |-> NoCoeffs, pred_coeff |-> <<>>, done |-> FALSE]

\* lines 165-174 applied to the drawn tensor
SplitCoeffs ==
  /\ probe.fn = "split_coeff"
  /\ ~probe.done
  /\ probe' = [probe EXCEPT
                 !.coeffs = split_coeff(probe.full_coeff),
                 !.pred_coeff = PredCoeff(split_coeff(probe.full_coeff), TransParams),
                 !.done = TRUE]
  /\ UNCHANGED <<args, reward_fn, video_rm_fn, params, loopVars, osVars, encVars, tsVars,
                 fwdVars, tchVars, outVars, gradVars, pc, exc, stages, calls>>

NextSplitCoeff == SplitCoeffs

SpecSplitCoeff == InitSplitCoeff /\ [][NextSplitCoeff]_vars

\* ------------------------------------------------------------------ claims
Exited == pc \in {"returned", "raised"}
TeacherCallsAt == {k \in DOMAIN calls : calls[k].fn = "teacher_unet"}
StudentCallsAt == {k \in DOMAIN calls : calls[k].fn = "unet"}
SolverCallsAt == {k \in DOMAIN calls : calls[k].fn = "solver.ddim_step"}
IsPrefix(s, t) == Len(s) <= Len(t) /\ s = SubSeq(t, 1, Len(s))
StageOrder ==
  <<"Encode", "SampleTimesteps", "StudentForwardStart", "TeacherDualForward",
    "ODEStep", "StudentForwardTarget", "ComposeLoss">>

\* the configuration C1 calls valid: a known loss metric, both reward paths off
ValidConfig ==
  /\ args.loss_type \in {"l2", "huber"}
  /\ args.reward_scale = 0
  /\ args.video_reward_scale = 0

\* C1: a training step under a valid configuration never exits by raising:
\* every stage from Encode on, the text-embedding call included, returns.
C1_StepDoesNotRaise == ValidConfig => pc # "raised"

\* C2: the stages run in the order of section 4.5, each at most once, and the
\* loss tuple exists only once all seven have run, ComposeLoss last.
C2_StagesInOrder ==
  /\ IsPrefix(stages, StageOrder)
  /\ (result # <<>> => stages = StageOrder)
  /\ (pc = "returned" <=> result # <<>>)
C2_Witness == pc = "returned" /\ stages = StageOrder /\ Len(result) = 4

\* C3: for every sample the advanced timestep is max(start_timesteps - topk, 0):
\* never negative, start_timesteps - topk when that is not negative, and 0
\* whenever start_timesteps < topk.
C3_AdvancedTimestepClamped ==
  \A i \in DOMAIN timesteps :
    /\ timesteps[i] >= 0
    /\ (start_timesteps[i] >= args.topk => timesteps[i] = start_timesteps[i] - args.topk)
    /\ (start_timesteps[i] < args.topk => timesteps[i] = 0)
C3_Witness ==
  \E i \in DOMAIN timesteps :
    start_timesteps[i] < args.topk /\ timesteps[i] = 0 /\ start_timesteps[i] > 0

\* C4: for a sample with start_timesteps - topk < 0 the advanced timestep is 0,
\* its scalings are c_skip = 1 and c_out = 0, and the distillation target
\* equals x_prev whatever the student returned in the target pass.
C4_TargetIsXPrevAtBoundary ==
  \A i \in DOMAIN timesteps :
    start_timesteps[i] - args.topk < 0 =>
      /\ timesteps[i] = 0
      /\ (scalings.c_skip # <<>> => scalings.c_skip[i] = One /\ scalings.c_out[i] = 0)
      /\ (target # <<>> => target[i] = x_prev[i])
C4_Witness ==
  /\ target # <<>>
  /\ \E i \in DOMAIN timesteps :
       /\ start_timesteps[i] - args.topk < 0
       /\ target[i] = x_prev[i]
       /\ \E k \in StudentCallsAt : calls[k].x = x_prev

\* C5: at timestep 0 the boundary scaler gives c_skip = 1 and c_out = 0, and
\* the consistency formula of line 774 gives model_pred equal to the noisy
\* input, for every student output.
C5_BoundaryIdentity ==
  /\ scalings_for_boundary_conditions(0) = <<One, 0>>
  /\ \A i \in DOMAIN start_timesteps :
       start_timesteps[i] = 0 =>
         /\ (scalings.c_skip_start # <<>> =>
               scalings.c_skip_start[i] = One /\ scalings.c_out_start[i] = 0)
         /\ (model_pred # <<>> => model_pred[i] = noisy_model_input[i])
C5_Witness ==
  /\ model_pred # <<>>
  /\ \E i \in DOMAIN start_timesteps :
       start_timesteps[i] = 0 /\ model_pred[i] = noisy_model_input[i]

\* C6: a reward path whose scale is <= 0 is skipped: its reward function is
\* never constructed, neither the decode nor the reward function is called
\* for it, and its loss term is exactly 0; each path independently.
C6_DisabledRewardPathSkipped ==
  /\ args.reward_scale <= 0 =>
       /\ reward_fn = "None"
       /\ NumPathCalls("vae.decode", "image") = 0
       /\ NumCalls("reward_fn") = 0
       /\ losses.reward_loss = 0
       /\ (result # <<>> => result[3] = 0)
  /\ args.video_reward_scale <= 0 =>
       /\ video_rm_fn = "None"
       /\ NumPathCalls("vae.decode", "video") = 0
       /\ NumCalls("video_rm_fn") = 0
       /\ losses.video_rm_loss = 0
       /\ (result # <<>> => result[4] = 0)
C6_Witness ==
  /\ pc = "returned"
  /\ args.reward_scale = 0
  /\ args.video_reward_scale > 0
  /\ NumPathCalls("vae.decode", "video") = 1
  /\ NumCalls("vae.decode") = 1
  /\ result[3] = 0 /\ result[4] # 0

\* C7: the distillation loss is evaluated with gradient tracking on: the
\* ComposeLoss stage runs outside every no-gradient scope.
C7_LossOutsideNoGrad ==
  /\ (pc = "loss" => grad_enabled /\ grad_stack = <<>>)
  /\ (result # <<>> => loss_grad)

\* C8: on every exit of the step, by return or by an exception raised inside
\* a no-gradient scope, the gradient-tracking mode is the one the step was
\* entered with and no scope is left open; leaving the nested scope puts
\* back the mode of the enclosing scope.
C8_GradModeRestored ==
  /\ (Exited => grad_enabled /\ grad_stack = <<>>)
  /\ (pc = "loss" => ~grad_enabled /\ Len(grad_stack) = 1)
  /\ (pc = "student_target" => ~grad_enabled /\ grad_stack = <<TRUE, FALSE>>)
C8_Witness ==
  /\ pc = "raised"
  /\ exc = "RuntimeError"
  /\ stages[Len(stages)] = "StudentForwardTarget"
  /\ grad_enabled

\* C9: the teacher is called at most twice and exactly twice in a step that
\* returns: first with the conditional, then with the unconditional
\* embedding, both on the noisy latent at start_timesteps, both with
\* gradient tracking off, both before the solver call.
C9_TeacherCalledTwice ==
  /\ Cardinality(TeacherCallsAt) <= 2
  /\ (result # <<>> => Cardinality(TeacherCallsAt) = 2)
  /\ \A k \in TeacherCallsAt :
       /\ ~calls[k].grad
       /\ calls[k].x = noisy_model_input
       /\ calls[k].t = start_timesteps
       /\ calls[k].ctx =
            IF \E m \in TeacherCallsAt : m < k
            THEN "uncond_prompt_embeds" ELSE "prompt_embeds"
  /\ \A k \in SolverCallsAt :
       Cardinality({m \in TeacherCallsAt : m < k}) = 2
C9_Witness ==
  /\ pc = "returned"
  /\ Cardinality(TeacherCallsAt) = 2
  /\ Cardinality(SolverCallsAt) = 1

\* C10: the student is called at most twice and exactly twice in a step that
\* returns: first with gradient tracking on, on the noisy latent at
\* start_timesteps; then, after the solver call, with tracking off, on x_prev
\* at the advanced timesteps; both with the same text conditioning and the
\* guidance embedding of the step's one sample of w.
C10_StudentCalledTwice ==
  /\ Cardinality(StudentCallsAt) <= 2
  /\ (result # <<>> => Cardinality(StudentCallsAt) = 2)
  /\ \A k \in StudentCallsAt :
       /\ calls[k].ctx = "prompt_embeds"
       /\ calls[k].cond = guidance_scale_embedding(w)
       /\ IF \E m \in StudentCallsAt : m < k
          THEN /\ ~calls[k].grad
               /\ calls[k].x = x_prev
               /\ calls[k].t = timesteps
               /\ \E m \in SolverCallsAt : m < k
          ELSE /\ calls[k].grad
               /\ calls[k].x = noisy_model_input
               /\ calls[k].t = start_timesteps
C10_Witness ==
  /\ pc = "returned"
  /\ Cardinality(StudentCallsAt) = 2
  /\ \E k \in StudentCallsAt : calls[k].t # start_timesteps

\* C11: the solver is called with the per-sample index that looked up
\* start_timesteps in the same step, and every entry of that index lies in
\* [0, K), K being the number of sparse timesteps the solver was built with.
C11_SolverIndexInRange ==
  /\ \A i \in DOMAIN index :
       /\ index[i] \in 0..(SolverNumTimesteps - 1)
       /\ start_timesteps[i] = DdimTimestep(SolverNumTimesteps, index[i])
  /\ \A k \in SolverCallsAt :
       /\ calls[k].idx = index
       /\ \A i \in DOMAIN calls[k].idx : calls[k].idx[i] \in 0..(SolverNumTimesteps - 1)
C11_Witness ==
  /\ SolverCallsAt # {}
  /\ \E k \in SolverCallsAt : \E i \in DOMAIN index :
       calls[k].idx[i] = SolverNumTimesteps - 1 /\ index[i] > 0

\* a configuration that breaks a reward path's precondition: a reward path
\* enabled with a train batch size other than 1, or the video-reward path
\* enabled with a temporal length not above the video reward batch size
RewardPreconditionBroken ==
  \/ /\ ImageRewardTaken(args.reward_scale) \/ VideoRewardTaken(args.video_reward_scale)
     /\ args.train_batch_size # 1
  \/ /\ VideoRewardTaken(args.video_reward_scale)
     /\ ~(args.n_frames > args.video_rm_batch_size)

\* C12: a configuration that breaks a reward path's precondition is rejected
\* before any step runs: such a run makes no encode, student or teacher call.
C12_RewardPreconditionAtConfigTime ==
  RewardPreconditionBroken =>
    \A k \in DOMAIN calls : calls[k].fn \notin {"vae.encode", "unet", "teacher_unet"}

\* C13: a guidance range with w_min > w_max is rejected before any step runs
\* (no call of any network is made under it), and every sampled guidance
\* weight satisfies w_min <= w <= w_max.
C13_GuidanceRangeValidated ==
  /\ (args.w_range[1] > args.w_range[2] => calls = <<>>)
  /\ \A i \in DOMAIN w : args.w_range[1] <= w[i] /\ w[i] <= args.w_range[2]

\* C14: the returned total is the sum of the second, third and fourth
\* elements of the tuple, which are the three losses; a disabled reward path
\* contributes exactly 0 and an enabled one -mean(reward) * scale.
C14_TotalLossIsSum ==
  result # <<>> =>
    /\ Len(result) = 4
    /\ result[1] = result[2] + result[3] + result[4]
    /\ result[2] = losses.distill_loss
    /\ IF args.reward_scale > 0
       THEN /\ expert_rewards # <<>>
            /\ result[3] = (0 - (SumSeq(expert_rewards) \div Len(expert_rewards)))
                              * args.reward_scale
       ELSE result[3] = 0
    /\ IF args.video_reward_scale > 0
       THEN /\ video_rewards # <<>>
            /\ result[4] = (0 - (SumSeq(video_rewards) \div Len(video_rewards)))
                              * args.video_reward_scale
       ELSE result[4] = 0
C14_Witness ==
  /\ result # <<>>
  /\ result[2] > 0 /\ result[3] < 0 /\ result[4] < 0
  /\ result[1] = result[2] + result[3] + result[4]

\* C15: for T > n and a start in [0, skip), skip = T // n, the selected
\* indices are exactly n, they are start, start + skip, ..., start + (n-1)*skip,
\* all distinct and all in [0, T).
C15_VideoFramesEvenlySpaced ==
  (probe.fn = "video_frame_idx" /\ probe.done) =>
    LET n == args.video_rm_batch_size
        skip == args.n_frames \div n
        idx == probe.idx
    IN  /\ Len(idx) = n
        /\ \A k \in 1..Len(idx) :
             /\ idx[k] = probe.start_id + (k - 1) * skip
             /\ idx[k] >= 0 /\ idx[k] < args.n_frames
        /\ \A k, l \in 1..Len(idx) : k # l => idx[k] # idx[l]
C15_Witness ==
  /\ probe.fn = "video_frame_idx" /\ probe.done
  /\ args.n_frames = 8 /\ args.video_rm_batch_size = 3
  /\ probe.idx = <<1, 3, 5>>

\* C16: for a sample whose guidance weight is 0 the combined estimates are
\* the conditional ones, whatever the unconditional teacher pass returned.
C16_CfgAtZeroIsConditional ==
  teacher.pred_x0 # <<>> =>
    \A i \in DOMAIN w :
      w[i] = 0 =>
        \A j \in Frames :
          /\ teacher.pred_x0[i][j] =
               PredictedOriginalElem(teacher.cond, start_timesteps[i],
                                     noisy_model_input[i][j])
          /\ teacher.pred_noise[i][j] =
               PredictedNoiseElem(teacher.cond, start_timesteps[i],
                                  noisy_model_input[i][j])
C16_Witness ==
  /\ teacher.pred_x0 # <<>>
  /\ \E i \in DOMAIN w : \E j \in Frames :
       /\ w[i] = 0
       /\ teacher.pred_x0[i][j] #
            PredictedOriginalElem(teacher.uncond, start_timesteps[i],
                                  noisy_model_input[i][j])
       /\ teacher.pred_noise[i][j] #
            PredictedNoiseElem(teacher.uncond, start_timesteps[i],
                               noisy_model_input[i][j])

\* C17: no step of the training loop changes the parameters of the
\* autoencoder, the text encoder or the teacher; the student's parameters
\* change only in the optimizer's update, taken once forward has returned the
\* loss tuple.
C17_OnlyStudentUpdated ==
  [][ /\ \A m \in Networks \ {"unet"} : params'[m] = params[m]
      /\ (params'["unet"] # params["unet"] =>
            pc = "returned" /\ result # <<>> /\ pc' = "updated") ]_vars
C17_Witness ==
  /\ params["unet"] = 1
  /\ \A m \in Networks \ {"unet"} : params[m] = 0
  /\ pc = "returned"
  /\ TeacherCallsAt # {} /\ StudentCallsAt # {}

\* C19: the returned distill_loss is the configured metric, squared error or
\* Huber, applied to (model_pred, target); a loss_type outside that closed set
\* is rejected, so no step returns under it.
C19_LossMetricClosed ==
  result # <<>> =>
    /\ args.loss_type \in {"l2", "huber"}
    /\ (args.loss_type = "l2" =>
          result[2] = Mean([i \in Samples |-> [j \in Frames |->
                              MseElem(model_pred[i][j], target[i][j])]]))
    /\ (args.loss_type = "huber" =>
          result[2] = Mean([i \in Samples |-> [j \in Frames |->
                              HuberElem(model_pred[i][j], target[i][j], args.huber_c)]]))

\* C20: the b * t flattened frames reach the autoencoder in ceil(b * t / c)
\* calls of at most c frames each, every frame once and in order, and the
\* latents are the encoded frames regrouped by sample, whatever c is.
C20_ChunkedEncode ==
  LET n == args.train_batch_size * args.n_frames
      c == args.vae_encode_batch_size
      seen == Flatten([k \in DOMAIN calls |-> calls[k].x[1]])
  IN  /\ \A k \in DOMAIN calls :
           /\ calls[k].fn = "vae.encode"
           /\ Len(calls[k].x[1]) >= 1 /\ Len(calls[k].x[1]) <= c
      /\ IsPrefix(seen, PixelValuesFlatten)
      /\ (pc = "encode" /\ enc_i < n => Len(seen) = enc_i)
      /\ (pc = "embed" =>
            /\ Len(calls) = (n + c - 1) \div c
            /\ seen = PixelValuesFlatten
            /\ latents =
                 [i \in 1..args.train_batch_size |->
                    [j \in 1..args.n_frames |->
                       VaeEncode(PixelValuesFlatten)[(i - 1) * args.n_frames + j]
                         * vae_scale_factor]])
C20_Witness ==
  /\ pc = "embed"
  /\ Len(calls) = 3
  /\ args.vae_encode_batch_size = 4
  /\ Len(calls[3].x[1]) = 1
  /\ args.train_batch_size = 3

\* C21: with ddim_timesteps[i] = (i + 1) * (T / K) - 1 and topk >= 0, every
\* sample satisfies 0 <= timesteps <= start_timesteps <= T - 1, for every
\* index drawn from [0, K).
C21_TimestepBounds ==
  \A i \in DOMAIN timesteps :
    /\ 0 <= timesteps[i]
    /\ timesteps[i] <= start_timesteps[i]
    /\ start_timesteps[i] <= NumTrainTimesteps - 1
C21_Witness ==
  \E i \in DOMAIN timesteps :
    /\ start_timesteps[i] = NumTrainTimesteps - 1
    /\ 0 < timesteps[i] /\ timesteps[i] < start_timesteps[i]

\* the sparse spacing T / K of the solver's schedule
SparseSpacing == NumTrainTimesteps \div SolverNumTimesteps

\* C22: when topk equals the sparse spacing T / K, the timestep of the target
\* student pass is the one x_prev lives at: ddim_timesteps[index - 1] for
\* index >= 1, and the terminal timestep 0, where alpha_prev is 1.0, for
\* index = 0.
C22_TargetTimestepIsPrevSparse ==
  args.topk = SparseSpacing =>
    \A k \in StudentCallsAt : \A m \in SolverCallsAt :
      m < k =>
        \A i \in DOMAIN calls[m].idx :
          IF calls[m].idx[i] >= 1
          THEN calls[k].t[i] = DdimTimestep(SolverNumTimesteps, calls[m].idx[i] - 1)
          ELSE /\ calls[k].t[i] = 0
               /\ DdimAlphaPrev(SolverNumTimesteps, calls[m].idx[i]) = One
C22_Witness ==
  /\ args.topk = SparseSpacing
  /\ \E k \in StudentCallsAt : \E m \in SolverCallsAt :
       /\ m < k
       /\ \E i, j \in DOMAIN calls[m].idx :
            /\ calls[m].idx[i] = 0 /\ calls[k].t[i] = 0
            /\ calls[m].idx[j] >= 1 /\ calls[k].t[j] > 0

\* C23: global_step counts the train_step calls after which
\* train_step.sync_gradients is true: once the loop has dealt with the calls of
\* an epoch, global_step (and the progress bar) equals their number.
C23_GlobalStepCountsSyncCalls ==
  lpc \in {"epoch_end", "done"} =>
    /\ global_step = sync_calls
    /\ progress = global_step

\* C24: the loop ends; it enters at most num_train_epochs epochs, leaves at
\* the first epoch boundary where global_step >= max_train_steps, and
\* global_step never exceeds max_train_steps.
C24_LoopTerminates ==
  /\ [](/\ global_step <= loop_args.max_train_steps
        /\ epoch <= loop_args.num_train_epochs
        /\ (lpc \in {"batch", "ckpt_rotate", "ckpt_save", "logs", "epoch_end"} =>
              epoch < loop_args.num_train_epochs))
  /\ [][(lpc = "epoch_end" /\ global_step >= loop_args.max_train_steps) =>
          lpc' = "done"]_vars
  /\ <>(lpc \in {"done", "raised"})
C24_Witness ==
  /\ lpc = "done"
  /\ global_step = 2
  /\ global_step = loop_args.max_train_steps
  /\ epoch = 1

\* the directory SaveCheckpoint creates for the current step
NewCheckpoint == DirEntry("checkpoint", global_step, FALSE)

\* C25: with checkpoints_total_limit = L >= 1, the rotation leaves at most
\* L - 1 counted checkpoint directories before the new one is created and at
\* most L after it; the removed ones are older than every old one kept, and
\* entries whose name contains "rm" (or does not start with "checkpoint") are
\* never removed.
C25_CheckpointRotation ==
  /\ [](loop_args.checkpoints_total_limit # None =>
          /\ (lpc = "ckpt_save" =>
                Cardinality(Counted(dirs)) <= loop_args.checkpoints_total_limit[1] - 1)
          /\ \A r \in removed :
               /\ r.prefix = "checkpoint" /\ ~r.rm
               /\ \A d \in Counted(dirs) \ {NewCheckpoint} : r.step < d.step
          /\ \A d \in dirs0 : (d.rm \/ d.prefix # "checkpoint") => d \in dirs)
  /\ [][(loop_args.checkpoints_total_limit # None /\ lpc = "ckpt_save") =>
          /\ NewCheckpoint \in dirs'
          /\ Cardinality(Counted(dirs')) <= loop_args.checkpoints_total_limit[1]]_vars
C25_Witness ==
  /\ loop_args.checkpoints_total_limit = Some(2)
  /\ Cardinality(removed) = 2
  /\ Counted(dirs) = {NewCheckpoint, DirEntry("checkpoint", MaxOldStep, FALSE)}
  /\ DirEntry("checkpoint", 3, TRUE) \in dirs
  /\ lpc \notin {"ckpt_rotate", "ckpt_save"}

\* C26: on rank 0, once a counted step is a multiple of checkpointing_steps,
\* the checkpoint block completes: checkpoint-<global_step> exists, model.ckpt
\* is written into it, and the loop goes on to the logging of the step.
C26_CheckpointBlockCompletes ==
  (/\ loop_args.rank_id = 0
   /\ sync_gradients
   /\ global_step >= 1
   /\ CheckpointDue(global_step, loop_args.checkpointing_steps)
   /\ lpc \in {"logs", "epoch_end", "raised"}) =>
    /\ NewCheckpoint \in dirs
    /\ global_step \in ckpt_files

\* C27: Open-Sora step accounting.  steps_per_sink is sink_size in sink mode
\* with sink_size # -1 and dataset_size otherwise; once the accounting has
\* run, total_train_steps equals sink_epochs * steps_per_sink, is at least the
\* requested count, no smaller multiple of steps_per_sink is, and it exceeds
\* the request by fewer than steps_per_sink steps.
C27_TotalStepsIsSmallestSinkMultiple ==
  "total_train_steps" \in os_defined =>
    LET sps == os_locals.steps_per_sink
        req == IF os_args.max_train_steps # None THEN os_args.max_train_steps[1]
               ELSE os_args.epochs * os_args.dataset_size
        tot == os_locals.total_train_steps
    IN /\ sps = IF os_args.dataset_sink_mode /\ os_args.sink_size # -1
                THEN os_args.sink_size ELSE os_args.dataset_size
       /\ tot = os_locals.sink_epochs * sps
       /\ tot >= req
       /\ \A m \in 0..(os_locals.sink_epochs - 1) : m * sps < req
       /\ tot - req < sps

\* the accounting ran in sink mode and rounded the request up
C27_Witness ==
  /\ "total_train_steps" \in os_defined
  /\ os_args.dataset_sink_mode
  /\ os_locals.steps_per_sink = os_args.sink_size
  /\ os_args.max_train_steps # None
  /\ os_locals.total_train_steps > os_args.max_train_steps[1]

\* C28: Open-Sora checkpoint mode selection.  Once the mode is derived it is
\* false with interval ckpt_save_interval when checkpointing_steps is unset,
\* true with interval checkpointing_steps when set without sink mode, false
\* with interval max(1, checkpointing_steps // steps_per_sink) >= 1 in sink
\* mode; and when it differs from args.step_mode the run has warned and has
\* continued towards training.
C28_ModeMismatchWarnsAndContinues ==
  "step_mode" \in os_defined =>
    /\ IF os_args.checkpointing_steps = None
       THEN /\ ~os_locals.step_mode
            /\ os_locals.ckpt_save_interval = os_args.ckpt_save_interval
       ELSE IF ~os_args.dataset_sink_mode
       THEN /\ os_locals.step_mode
            /\ os_locals.ckpt_save_interval = os_args.checkpointing_steps[1]
       ELSE /\ ~os_locals.step_mode
            /\ os_locals.ckpt_save_interval >= 1
            /\ os_locals.ckpt_save_interval
                 = PyMax(1, os_args.checkpointing_steps[1] \div os_locals.steps_per_sink)
    /\ os_locals.step_mode # os_args.step_mode =>
         /\ os_pc \in {"log_config", "train"}
         /\ os_warnings >= 1

\* C29: Open-Sora training with a VAE latent cache.  When vae_latent_folder is
\* given and exists, vae is bound (to None), nothing else of the VAE branch is,
\* and the run never stops on a name that only the VAE branch binds.
C29_LatentCacheRunReachesTrain ==
  (TrainWithVaeLatent(os_args.vae_latent_folder) /\ os_args.vae_latent_folder[1] = "cached"
   /\ os_pc # "init_vae") =>
    /\ "vae" \in os_defined
    /\ "vae_dtype" \notin os_defined
    /\ os_exc # "UnboundLocalError"

\* the six fields of row b laid end to end in the order id, exp, tex, angle,
\* gamma, trans
FieldsInOrder(cs, b) ==
  cs.id[b] \o cs.exp[b] \o cs.tex[b] \o cs.angle[b] \o cs.gamma[b] \o cs.trans[b]

\* C30 as stated: split_coeff cuts the columns of a (B, 256) input into the
\* fields id, exp, tex, angle, gamma, trans of widths 80, 64, 80, 3, 27 and 3,
\* in that order, and the six fields laid end to end are the input.
C30_SplitOf256HasThreeTranslations ==
  (probe.fn = "split_coeff" /\ probe.done) =>
    \A b \in 1..Len(probe.full_coeff) :
      Len(probe.full_coeff[b]) = 256 =>
        /\ Len(probe.coeffs.id[b]) = 80
        /\ Len(probe.coeffs.exp[b]) = 64
        /\ Len(probe.coeffs.tex[b]) = 80
        /\ Len(probe.coeffs.angle[b]) = 3
        /\ Len(probe.coeffs.gamma[b]) = 27
        /\ Len(probe.coeffs.trans[b]) = 3
        /\ FieldsInOrder(probe.coeffs, b) = probe.full_coeff[b]

\* C30: split_coeff cuts the N >= 254 columns of its input into the fields
\* id, exp, tex, angle, gamma, trans of widths 80, 64, 80, 3, 27 and N - 254,
\* in that order; the six fields laid end to end are the input, so every column
\* lies in exactly one field.
C30_SplitPartitionsColumns ==
  (probe.fn = "split_coeff" /\ probe.done) =>
    \A b \in 1..Len(probe.full_coeff) :
      /\ Len(probe.coeffs.id[b]) = 80
      /\ Len(probe.coeffs.exp[b]) = 64
      /\ Len(probe.coeffs.tex[b]) = 80
      /\ Len(probe.coeffs.angle[b]) = 3
      /\ Len(probe.coeffs.gamma[b]) = 27
      /\ Len(probe.coeffs.trans[b]) = Len(probe.full_coeff[b]) - 254
      /\ FieldsInOrder(probe.coeffs, b) = probe.full_coeff[b]

\* a 256-column input was split and its trans field has two columns
C30_Witness ==
  /\ probe.fn = "split_coeff"
  /\ probe.done
  /\ Len(probe.full_coeff[1]) = 256
  /\ Len(probe.coeffs.trans[1]) = 2

====
